---- MODULE Spec2Model ----
(***************************************************************************)
(* Model of src/utils/data_augment.py: view subsetting, random crop        *)
(* offsets, padding, cropping and the composite scale -> crop -> pad       *)
(* transform with intrinsic-matrix propagation.                            *)
(*                                                                         *)
(* The functions are pure (apart from the random source), so the state is  *)
(* one call at a time: the arguments of the call in `call` and the outcome *)
(* (normal return or raised exception) in `ret`.                           *)
(*                                                                         *)
(* Conventions                                                             *)
(*  - a Python tuple / 1-D arange is a TLA+ sequence; Python index i is    *)
(*    TLA+ index i+1;                                                      *)
(*  - crop_size is a sequence: <<s>> is the scalar s, <<h, w>> the tuple;  *)
(*  - an image is [type, shape, data]: data is the sequence of rows, each  *)
(*    row the sequence of its cells; a cell of a 3-D array is the sequence *)
(*    of its channel values;                                               *)
(*  - None is the empty sequence <<>>;                                     *)
(*  - a real number is a fraction: scale_factor is <<num, den>>, a 3x3     *)
(*    float matrix is [m |-> integer rows, den |-> common denominator].    *)
(*    The scale factors used are dyadic, so the floats of the code are     *)
(*    exactly these fractions.                                             *)
(***************************************************************************)
EXTENDS Integers, Sequences, FiniteSets, TLC

VARIABLES pc, call, ret

vars == <<pc, call, ret>>

(* ------------------------------ bounds --------------------------------- *)

\* largest number_views / minimum_views
MaxViews == 5
\* np.random.random() is drawn from {0/RandRes, ..., (RandRes-1)/RandRes}
RandRes == 4
\* largest height / width handed to get_random_crop_offsets
MaxSide == 5
\* largest height / width of an input image
MaxDim == 3
\* largest crop height / width
MaxCrop == 3
\* largest h_offset / w_offset handed to crop_img and scale_crop
MaxOff == 3
\* largest output_width / output_height handed to pad_width_or_height
MaxOut == 4
\* channels of a 3-D image
NumChannels == 2

(* --------------------------- Python helpers ---------------------------- *)

Max(a, b) == IF a >= b THEN a ELSE b

Min(a, b) == IF a <= b THEN a ELSE b

\* round(p/q, 0) of Python / np.round: to nearest, ties to even (q > 0)
RoundHalfEven(p, q) ==
    LET f == p \div q
        r == p % q
    IN  IF 2 * r < q THEN f
        ELSE IF 2 * r > q THEN f + 1
        ELSE IF f % 2 = 0 THEN f ELSE f + 1

\* Python's slice index adjustment for a sequence of length n
SliceIndex(i, n) == IF i < 0 THEN Max(i + n, 0) ELSE Min(i, n)

\* len(x[start:stop]) for len(x) = n
SliceLen(n, start, stop) == Max(0, SliceIndex(stop, n) - SliceIndex(start, n))

\* x[start:stop]
PySlice(x, start, stop) ==
    LET n == Len(x)
        a == SliceIndex(start, n)
    IN  [k \in 1..SliceLen(n, start, stop) |-> x[a + k]]

\* np.arange(n)
Arange(n) == [k \in 1..n |-> k - 1]

Raise(error) == [status |-> "raise", error |-> error, value |-> <<>>, locals |-> <<>>]

Return(value) == [status |-> "return", error |-> "", value |-> value, locals |-> <<>>]

NoCall == [fn |-> "none"]

NoRet == [status |-> "none", error |-> "", value |-> <<>>, locals |-> <<>>]

(* --------------------------- get_subset_views -------------------------- *)

\* random.shuffle(x): for i in reversed(range(1, len(x))): j = randbelow(i+1);
\* x[i], x[j] = x[j], x[i].  js[i] is the j drawn at step i.
RECURSIVE ShuffleFrom(_, _, _)
ShuffleFrom(x, js, i) ==
    IF i < 1 THEN x
    ELSE LET j == js[i]
             y == [x EXCEPT ![i + 1] = x[j + 1], ![j + 1] = x[i + 1]]
         IN  ShuffleFrom(y, js, i - 1)

Shuffle(x, js) == ShuffleFrom(x, js, Len(x) - 1)

\* the draws random.shuffle can make on a sequence of length n
ShuffleDraws(n) == {js \in [1..(n - 1) -> 0..(n - 1)] : \A i \in 1..(n - 1) : js[i] <= i}

\* a mis-scaled count: the minimum_views term is dropped
NumberSelectedViewsNoMinimum(number_views, minimum_views, u) ==
    RoundHalfEven((number_views - minimum_views) * u, RandRes)

\* int(round(minimum_views + (number_views - minimum_views) * random(), 0)),
\* random() = u / RandRes
NumberSelectedViews(number_views, minimum_views, u) ==
    RoundHalfEven(minimum_views * RandRes + (number_views - minimum_views) * u, RandRes)

get_subset_views(number_views, minimum_views, js, u) ==
    LET views == Arange(number_views)
    IN  IF minimum_views >= number_views
        THEN Return(<<views>>)
        ELSE LET shuffled == Shuffle(views, js)
                 number_selected_views == NumberSelectedViews(number_views, minimum_views, u)
             IN  Return(<<PySlice(shuffled, 0, number_selected_views)>>)

GetSubsetViews ==
    /\ pc = "idle"
    /\ \E number_views \in 1..MaxViews, minimum_views \in 1..MaxViews, u \in 0..(RandRes - 1) :
         \E js \in ShuffleDraws(number_views) :
            /\ call' = [fn |-> "get_subset_views", number_views |-> number_views,
                        minimum_views |-> minimum_views]
            /\ ret' = get_subset_views(number_views, minimum_views, js, u)
    /\ pc' = "done"

(* ------------------------ get_random_crop_offsets ---------------------- *)

IsTuple(crop_size) == Len(crop_size) = 2

CropHeight(crop_size) == crop_size[1]

CropWidth(crop_size) == IF IsTuple(crop_size) THEN crop_size[2] ELSE crop_size[1]

CropSizes == {<<s>> : s \in 1..MaxCrop} \cup {<<h, w>> : h \in 1..MaxCrop, w \in 1..MaxCrop}

\* a sampler whose upper bound is inclusive (random.randint instead of np.random.randint)
RandIntInclusive(low, high) == low..high

\* the values np.random.randint(low, high) can return: low <= x < high
RandInt(low, high) == low..(high - 1)

\* the outcomes of get_random_crop_offsets, one per pair of draws
get_random_crop_offsets(crop_size, height, width) ==
    LET crop_height == CropHeight(crop_size)
        crop_width == CropWidth(crop_size)
    IN  {Return(<<h_offset, w_offset>>) :
            w_offset \in RandInt(0, Max(1, width - crop_width - 1)),
            h_offset \in RandInt(0, Max(1, height - crop_height - 1))}

GetRandomCropOffsets ==
    /\ pc = "idle"
    /\ \E crop_size \in CropSizes, height \in 1..MaxSide, width \in 1..MaxSide :
            /\ call' = [fn |-> "get_random_crop_offsets", crop_size |-> crop_size,
                        height |-> height, width |-> width]
            /\ ret' \in get_random_crop_offsets(crop_size, height, width)
    /\ pc' = "done"

(* -------------------------------- images ------------------------------- *)

\* the cell at row r, column c (0-based) of a test image of width w: cells are
\* numbered row by row, so every cell of an image is distinct and cell (0, 0)
\* has the default pad_value 0
Cell(ndim, r, c, w) ==
    IF ndim = 3 THEN [k \in 1..NumChannels |-> (r * w + c) * NumChannels + k - 1]
    ELSE r * w + c

\* the cells of an array of the given shape (spatial axes only; arrays of
\* rank 1 or above 3 are never indexed by the code and carry no cells)
Cells(shape) ==
    IF Len(shape) \in {2, 3}
    THEN [r \in 1..shape[1] |-> [c \in 1..shape[2] |-> Cell(Len(shape), r - 1, c - 1, shape[2])]]
    ELSE <<>>

\* np.ndarray of the given shape
NdArray(shape) == [type |-> "ndarray", shape |-> shape, data |-> Cells(shape)]

\* PIL.Image.Image: .height, .width, .size = (width, height)
PilImage(height, width) ==
    [type |-> "Image", shape |-> <<height, width>>, data |-> Cells(<<height, width>>)]

\* a value of another type (a torch tensor, a list, ...)
Other(type) == [type |-> type, shape |-> <<>>, data |-> <<>>]

Shapes ==
    {<<h>> : h \in 1..MaxDim}
    \cup {<<h, w>> : h \in 1..MaxDim, w \in 1..MaxDim}
    \cup {<<h, w, NumChannels>> : h \in 1..MaxDim, w \in 1..MaxDim}
    \cup {<<h, w, NumChannels, 1>> : h \in 1..MaxDim, w \in 1..MaxDim}

Arrays == {NdArray(shape) : shape \in Shapes}

PilImages == {PilImage(h, w) : h \in 1..MaxDim, w \in 1..MaxDim}

Others == {Other("tensor"), Other("list")}

PadValues == {0, 7}

\* the constant cell np.pad / transforms.Pad writes for fill value v
FillCell(ndim, v) == IF ndim = 3 THEN [k \in 1..NumChannels |-> v] ELSE v

Repeat(x, n) == [k \in 1..n |-> x]

(* -------------------------- pad_width_or_height ------------------------ *)

\* the split with the odd cell on the leading (top/left) side
PadAmountsCeil(height, width, output_width, output_height) ==
    [p_left   |-> IF width < output_width THEN (output_width - width + 1) \div 2 ELSE 0,
     p_right  |-> IF width < output_width
                  THEN (output_width - width) - (output_width - width + 1) \div 2 ELSE 0,
     p_top    |-> IF height < output_height THEN (output_height - height + 1) \div 2 ELSE 0,
     p_bottom |-> IF height < output_height
                  THEN (output_height - height) - (output_height - height + 1) \div 2 ELSE 0]

\* p_left, p_right, p_top, p_bottom: int(np.floor(d / 2)) is d \div 2
PadAmounts(height, width, output_width, output_height) ==
    [p_left   |-> IF width < output_width THEN (output_width - width) \div 2 ELSE 0,
     p_right  |-> IF width < output_width
                  THEN (output_width - width) - (output_width - width) \div 2 ELSE 0,
     p_top    |-> IF height < output_height THEN (output_height - height) \div 2 ELSE 0,
     p_bottom |-> IF height < output_height
                  THEN (output_height - height) - (output_height - height) \div 2 ELSE 0]

\* constant padding of the two spatial axes of an image with fill value v
\* (the channel axis of a 3-D array gets (0, 0))
PadConstant(data, p_top, p_bottom, p_left, p_right, v) ==
    LET ndim == Len(data.shape)
        fill == FillCell(ndim, v)
        width == data.shape[2] + p_left + p_right
        blank == Repeat(fill, width)
        rows == [r \in 1..data.shape[1] |->
                    Repeat(fill, p_left) \o data.data[r] \o Repeat(fill, p_right)]
    IN  [type  |-> data.type,
         shape |-> [data.shape EXCEPT ![1] = data.shape[1] + p_top + p_bottom, ![2] = width],
         data  |-> Repeat(blank, p_top) \o rows \o Repeat(blank, p_bottom)]

\* the pairs given trailing side first: ((bottom, top), (right, left))
PadSpatialTrailingFirst(data, p_top, p_bottom, p_left, p_right, v) ==
    PadConstant(data, p_bottom, p_top, p_right, p_left, v)

\* np.pad(data, ((p_top, p_bottom), (p_left, p_right)[, (0, 0)]), 'constant',
\* constant_values=v), and transforms.Pad((left, top, right, bottom), fill=v)
PadSpatial(data, p_top, p_bottom, p_left, p_right, v) ==
    PadConstant(data, p_top, p_bottom, p_left, p_right, v)

\* transforms.Pad((p_left, p_top, p_right, p_bottom))(data): the fill argument
\* is not given, so it is the default 0 whatever pad_value is
PadImage(data, p, pad_value) ==
    PadSpatial(data, p.p_top, p.p_bottom, p.p_left, p.p_right, 0)

pad_width_or_height(data, output_width, output_height, pad_value, return_offsets) ==
    IF data.type = "ndarray" /\ Len(data.shape) < 2
    THEN Raise("IndexError")           \* data.shape[1] of a rank-1 array
    ELSE IF data.type \notin {"ndarray", "Image"}
    THEN Raise("UnboundLocalError")    \* width is never assigned
    ELSE
    LET height == data.shape[1]
        width == data.shape[2]
        with_channel == IF data.type = "ndarray" THEN Len(data.shape) = 3
                        ELSE FALSE     \* len(data.size) is 2 for every PIL image
        p == PadAmounts(height, width, output_width, output_height)
        padded == IF data.type = "ndarray"
                  THEN PadSpatial(data, p.p_top, p.p_bottom, p.p_left, p.p_right, pad_value)
                  ELSE PadImage(data, p, pad_value)
    IN  IF data.type = "ndarray" /\ ~with_channel /\ Len(data.shape) # 2
        THEN Raise("ValueError")       \* np.pad: two pairs for an array of rank > 3
        ELSE IF return_offsets
        THEN Return(<<padded, p.p_top, p.p_bottom, p.p_left, p.p_right>>)
        ELSE Return(<<padded>>)

PadWidthOrHeight ==
    /\ pc = "idle"
    /\ \E data \in Arrays \cup PilImages \cup Others,
          output_width \in 0..MaxOut, output_height \in 0..MaxOut,
          pad_value \in PadValues, return_offsets \in BOOLEAN :
            /\ call' = [fn |-> "pad_width_or_height", data |-> data,
                        output_width |-> output_width, output_height |-> output_height,
                        pad_value |-> pad_value, return_offsets |-> return_offsets]
            /\ ret' = pad_width_or_height(data, output_width, output_height,
                                          pad_value, return_offsets)
    /\ pc' = "done"

(* -------------------------------- crop_img ----------------------------- *)

\* the window taken with the two offsets exchanged
SliceSpatialSwapped(img, h_offset, crop_height, w_offset, crop_width) ==
    LET rows == PySlice(img.data, w_offset, w_offset + crop_height)
    IN  [type  |-> img.type,
         shape |-> [img.shape EXCEPT
                      ![1] = SliceLen(img.shape[1], w_offset, w_offset + crop_height),
                      ![2] = SliceLen(img.shape[2], h_offset, h_offset + crop_width)],
         data  |-> [r \in 1..Len(rows) |-> PySlice(rows[r], h_offset, h_offset + crop_width)]]

\* img[h_offset : h_offset + crop_height, w_offset : w_offset + crop_width(, :)]
SliceSpatial(img, h_offset, crop_height, w_offset, crop_width) ==
    LET rows == PySlice(img.data, h_offset, h_offset + crop_height)
    IN  [type  |-> img.type,
         shape |-> [img.shape EXCEPT
                      ![1] = SliceLen(img.shape[1], h_offset, h_offset + crop_height),
                      ![2] = SliceLen(img.shape[2], w_offset, w_offset + crop_width)],
         data  |-> [r \in 1..Len(rows) |-> PySlice(rows[r], w_offset, w_offset + crop_width)]]

\* torch.is_tensor(img): the module imports os, random, imageio and numpy
\* only, so the name torch is not bound and evaluating it raises NameError
TorchIsTensor(img) == Raise("NameError")

crop_img(img, crop_size, h_offset, w_offset) ==
    LET is_array == img.type = "ndarray"
        is_tensor == TorchIsTensor(img)
        crop_height == CropHeight(crop_size)
        crop_width == CropWidth(crop_size)
    IN  IF ~is_array /\ is_tensor.status = "raise"
        THEN is_tensor
        ELSE IF ~is_array /\ is_tensor.value # <<TRUE>>
        THEN Raise("RuntimeError: invalid image type")
        ELSE
        LET dim == Len(img.shape)
        IN  IF dim = 3 \/ dim = 2
            THEN Return(<<SliceSpatial(img, h_offset, crop_height, w_offset, crop_width)>>)
            ELSE Return(<<>>)          \* falls off the end: returns None

CropImg ==
    /\ pc = "idle"
    /\ \E img \in Arrays \cup Others, crop_size \in CropSizes,
          h_offset \in 0..MaxOff, w_offset \in 0..MaxOff :
            /\ call' = [fn |-> "crop_img", img |-> img, crop_size |-> crop_size,
                        h_offset |-> h_offset, w_offset |-> w_offset]
            /\ ret' = crop_img(img, crop_size, h_offset, w_offset)
    /\ pc' = "done"

(* ------------------------------- scale_crop ---------------------------- *)

\* skimage.transform.rescale(img, scale_factor[, channel_axis=2]): each spatial
\* axis becomes max(round(scale * n), 1) cells (np.round: ties to even), the
\* channel axis is kept.  The resampled cells are numbered by their place in
\* the resampled grid; at scale 1 that is the input itself.
Rescale(img, scale_factor) ==
    LET shape == [img.shape EXCEPT
                    ![1] = Max(RoundHalfEven(scale_factor[1] * img.shape[1], scale_factor[2]), 1),
                    ![2] = Max(RoundHalfEven(scale_factor[1] * img.shape[2], scale_factor[2]), 1)]
    IN  NdArray(shape)

\* a test that pads only when both axes are short
NeedsPadBoth(shape, crop_height, crop_width) ==
    shape[1] < crop_height /\ shape[2] < crop_width

\* img.shape[0] < crop_height or img.shape[1] < crop_width
NeedsPad(shape, crop_height, crop_width) ==
    shape[1] < crop_height \/ shape[2] < crop_width

\* A.dot(B) for 3x3 matrices given as fractions
Dot(A, B) ==
    [m   |-> [i \in 1..3 |-> [j \in 1..3 |->
                 A.m[i][1] * B.m[1][j] + A.m[i][2] * B.m[2][j] + A.m[i][3] * B.m[3][j]]],
     den |-> A.den * B.den]

\* Ks = np.eye(3); Ks[0,0] = Ks[1,1] = scale_factor
ScaleMatrix(scale_factor) ==
    [m   |-> <<<<scale_factor[1], 0, 0>>, <<0, scale_factor[1], 0>>, <<0, 0, scale_factor[2]>>>>,
     den |-> scale_factor[2]]

\* np.eye(3) with [0,2] = tx and [1,2] = ty
TranslateMatrix(tx, ty) == [m |-> <<<<1, 0, tx>>, <<0, 1, ty>>, <<0, 0, 1>>>>, den |-> 1]

\* the crop translation applied before the scaling
IntrinsicScaleLast(K, scale_factor, h_offset, w_offset, p_left, p_top) ==
    Dot(TranslateMatrix(p_left, p_top),
        Dot(ScaleMatrix(scale_factor),
            Dot(TranslateMatrix(-w_offset, -h_offset), [m |-> K, den |-> 1])))

\* K_aug = Kp.dot( Kc.dot( Ks.dot(K.copy()) ) )
Intrinsic(K, scale_factor, h_offset, w_offset, p_left, p_top) ==
    LET Ks == ScaleMatrix(scale_factor)
        Kc == TranslateMatrix(-w_offset, -h_offset)
        Kp == TranslateMatrix(p_left, p_top)
    IN  Dot(Kp, Dot(Kc, Dot(Ks, [m |-> K, den |-> 1])))

scale_crop(img, crop_size, h_offset, w_offset, scale_factor, K) ==
    IF img.type # "ndarray"
    THEN Raise("RuntimeError: invalid image type")
    ELSE IF Len(img.shape) \notin {2, 3}
    THEN Raise("RuntimeError: invalid input image dimension num")
    ELSE
    LET crop_height == CropHeight(crop_size)
        crop_width == CropWidth(crop_size)
        scaled == Rescale(img, scale_factor)
        cropped == crop_img(scaled, crop_size, h_offset, w_offset).value[1]
        pad == NeedsPad(cropped.shape, crop_height, crop_width)
        padded == pad_width_or_height(cropped, crop_width, crop_height, 0, TRUE).value
        out == IF pad THEN padded[1] ELSE cropped
        p_top == IF pad THEN padded[2] ELSE 0
        p_bottom == IF pad THEN padded[3] ELSE 0
        p_left == IF pad THEN padded[4] ELSE 0
        p_right == IF pad THEN padded[5] ELSE 0
        locals == [scaled |-> scaled, p_top |-> p_top, p_bottom |-> p_bottom,
                   p_left |-> p_left, p_right |-> p_right]
    IN  IF K # <<>>
        THEN [Return(<<out, Intrinsic(K, scale_factor, h_offset, w_offset, p_left, p_top)>>)
                EXCEPT !.locals = locals]
        ELSE [Return(<<out>>) EXCEPT !.locals = locals]

Scales == {<<1, 2>>, <<1, 1>>, <<3, 2>>}

Intrinsics ==
    {<<<<500, 0, 320>>, <<0, 500, 240>>, <<0, 0, 1>>>>,
     <<<<3, 1, 2>>, <<0, 5, 4>>, <<1, 0, 2>>>>}

\* the calls with small arguments
SmallScaleCropCalls ==
    [img : Arrays \cup Others, crop_size : CropSizes, h_offset : 0..MaxOff,
     w_offset : 0..MaxOff, scale_factor : Scales, K : Intrinsics \cup {<<>>}]

\* the documented scenarios: an under-sized 100x100 image cropped to 128, and
\* the intrinsic K = [[500,0,320],[0,500,240],[0,0,1]] at scale 0.5 and offset
\* (10, 20) on an image large enough to need no padding
DocumentedScaleCropCalls ==
    {[img |-> NdArray(<<100, 100>>), crop_size |-> <<128>>, h_offset |-> 0, w_offset |-> 0,
      scale_factor |-> <<1, 1>>, K |-> <<>>],
     [img |-> NdArray(<<40, 60>>), crop_size |-> <<10>>, h_offset |-> 10, w_offset |-> 20,
      scale_factor |-> <<1, 2>>, K |-> <<<<500, 0, 320>>, <<0, 500, 240>>, <<0, 0, 1>>>>]}

ScaleCrop ==
    /\ pc = "idle"
    /\ \E c \in SmallScaleCropCalls \cup DocumentedScaleCropCalls :
            /\ call' = [fn |-> "scale_crop"] @@ c
            /\ ret' = scale_crop(c.img, c.crop_size, c.h_offset, c.w_offset,
                                 c.scale_factor, c.K)
    /\ pc' = "done"

(* ------------------------------ the harness ---------------------------- *)

Init ==
    /\ pc = "idle"
    /\ call = NoCall
    /\ ret = NoRet

\* the caller takes the result; the next call can start
Finish ==
    /\ pc = "done"
    /\ pc' = "idle"
    /\ call' = NoCall
    /\ ret' = NoRet

Next ==
    \/ GetSubsetViews
    \/ GetRandomCropOffsets
    \/ PadWidthOrHeight
    \/ CropImg
    \/ ScaleCrop
    \/ Finish

Spec == Init /\ [][Next]_vars

(* ------------------------------ properties ----------------------------- *)

Returned(fn) == pc = "done" /\ call.fn = fn /\ ret.status = "return"

\* a / b = c / d
RatEq(a, b, c, d) == a * d = c * b

\* the rows and columns an image really has agree with h and w
HasSize(img, h, w) ==
    /\ img.shape[1] = h
    /\ img.shape[2] = w
    /\ Len(img.data) = h
    /\ \A r \in 1..h : Len(img.data[r]) = w

\* C1: the image scale_crop returns has exactly crop_height rows and
\* crop_width columns, whatever the image, crop_size, offsets and scale.
C1_ExactCropSize ==
    Returned("scale_crop") =>
        HasSize(ret.value[1], CropHeight(call.crop_size), CropWidth(call.crop_size))

\* C1 witness: an offset past the scaled image's edge on one axis only, with a
\* non-square crop; the crop is empty on that axis and is padded to size.
C1_Witness ==
    /\ Returned("scale_crop")
    /\ call.h_offset >= ret.locals.scaled.shape[1]
    /\ call.w_offset + CropWidth(call.crop_size) <= ret.locals.scaled.shape[2]
    /\ CropHeight(call.crop_size) # CropWidth(call.crop_size)
    /\ Len(call.img.shape) = 3
    /\ HasSize(ret.value[1], CropHeight(call.crop_size), CropWidth(call.crop_size))

ZeroSkewUnitRow(K) ==
    /\ K[1][2] = 0 /\ K[2][1] = 0
    /\ K[3] = <<0, 0, 1>>

\* C2: with K given, K_aug = PadTranslate * CropTranslate * Scale * K: rows 1
\* and 2 are scale * row + (pad - offset) * last row, the last row is K's; for
\* a K with zero skew and last row (0,0,1) the focal terms are scale * f and
\* the principal point is (scale*cx - w_offset + p_left, scale*cy - h_offset
\* + p_top); the documented K gives focal 250 and principal point (140, 110).
C2_IntrinsicComposition ==
    (Returned("scale_crop") /\ call.K # <<>>) =>
        LET K == call.K
            Ka == ret.value[2]
            sn == call.scale_factor[1]
            sd == call.scale_factor[2]
            tx == ret.locals.p_left - call.w_offset
            ty == ret.locals.p_top - call.h_offset
        IN  /\ Len(ret.value) = 2
            /\ \A j \in 1..3 :
                  /\ RatEq(Ka.m[1][j], Ka.den, sn * K[1][j] + sd * tx * K[3][j], sd)
                  /\ RatEq(Ka.m[2][j], Ka.den, sn * K[2][j] + sd * ty * K[3][j], sd)
                  /\ RatEq(Ka.m[3][j], Ka.den, K[3][j], 1)
            /\ ZeroSkewUnitRow(K) =>
                  /\ RatEq(Ka.m[1][1], Ka.den, sn * K[1][1], sd)
                  /\ RatEq(Ka.m[2][2], Ka.den, sn * K[2][2], sd)
                  /\ RatEq(Ka.m[1][3], Ka.den, sn * K[1][3] + sd * tx, sd)
                  /\ RatEq(Ka.m[2][3], Ka.den, sn * K[2][3] + sd * ty, sd)
                  /\ Ka.m[1][2] = 0 /\ Ka.m[2][1] = 0
                  /\ Ka.m[3][1] = 0 /\ Ka.m[3][2] = 0 /\ Ka.m[3][3] = Ka.den
            /\ (/\ K = <<<<500, 0, 320>>, <<0, 500, 240>>, <<0, 0, 1>>>>
                /\ call.scale_factor = <<1, 2>>
                /\ call.h_offset = 10 /\ call.w_offset = 20
                /\ ret.locals.p_left = 0 /\ ret.locals.p_top = 0) =>
                  /\ RatEq(Ka.m[1][1], Ka.den, 250, 1)
                  /\ RatEq(Ka.m[2][2], Ka.den, 250, 1)
                  /\ RatEq(Ka.m[1][3], Ka.den, 140, 1)
                  /\ RatEq(Ka.m[2][3], Ka.den, 110, 1)

\* C2 witness: a zero-skew K, a scale other than 1, distinct non-zero offsets
\* and padding on the left but not on top.
C2_Witness ==
    /\ Returned("scale_crop")
    /\ call.K # <<>>
    /\ ZeroSkewUnitRow(call.K)
    /\ call.scale_factor # <<1, 1>>
    /\ call.h_offset > 0 /\ call.w_offset > call.h_offset
    /\ ret.locals.p_left > 0 /\ ret.locals.p_top = 0

\* pixel (r, c) (0-based) of the rescaled image lies inside the crop window
Survives(scaled, crop_size, h_offset, w_offset, r, c) ==
    /\ h_offset <= r /\ r < h_offset + CropHeight(crop_size) /\ r < scaled.shape[1]
    /\ w_offset <= c /\ c < w_offset + CropWidth(crop_size) /\ c < scaled.shape[2]

\* C3: every pixel (r, c) of the rescaled image that survives the crop sits in
\* the output at (r - h_offset + p_top, c - w_offset + p_left), every other
\* output cell is padding of value 0, and the translation written into the
\* intrinsic's principal point is (-w_offset + p_left, -h_offset + p_top); a
\* 100x100 image with crop_size 128 at scale 1 and offset (0,0) ends centred
\* in a 128x128 output with 14 cells of value 0 on every side.
C3_TranslationMatchesPixels ==
    Returned("scale_crop") =>
        LET scaled == ret.locals.scaled
            out == ret.value[1]
            ho == call.h_offset
            wo == call.w_offset
            pt == ret.locals.p_top
            pl == ret.locals.p_left
            fill == FillCell(Len(out.shape), 0)
            rows == SliceLen(scaled.shape[1], ho, ho + CropHeight(call.crop_size))
            cols == SliceLen(scaled.shape[2], wo, wo + CropWidth(call.crop_size))
        IN  /\ \A r \in 0..(scaled.shape[1] - 1), c \in 0..(scaled.shape[2] - 1) :
                  Survives(scaled, call.crop_size, ho, wo, r, c) =>
                      out.data[r - ho + pt + 1][c - wo + pl + 1] = scaled.data[r + 1][c + 1]
            /\ \A r \in 0..(out.shape[1] - 1), c \in 0..(out.shape[2] - 1) :
                  ~(pt <= r /\ r < pt + rows /\ pl <= c /\ c < pl + cols) =>
                      out.data[r + 1][c + 1] = fill
            /\ (call.K # <<>> /\ call.K[3] = <<0, 0, 1>>) =>
                  LET Ka == ret.value[2]
                      sn == call.scale_factor[1]
                      sd == call.scale_factor[2]
                  IN  /\ RatEq(Ka.m[1][3] * sd - sn * call.K[1][3] * Ka.den, Ka.den * sd,
                               pl - wo, 1)
                      /\ RatEq(Ka.m[2][3] * sd - sn * call.K[2][3] * Ka.den, Ka.den * sd,
                               pt - ho, 1)
            /\ (/\ call.img.shape = <<100, 100>> /\ call.crop_size = <<128>>
                /\ call.scale_factor = <<1, 1>> /\ ho = 0 /\ wo = 0) =>
                  /\ HasSize(out, 128, 128)
                  /\ pt = 14 /\ pl = 14
                  /\ ret.locals.p_bottom = 14 /\ ret.locals.p_right = 14
                  /\ \A r \in 1..128, c \in 1..128 :
                        out.data[r][c] = IF r \in 15..114 /\ c \in 15..114
                                         THEN call.img.data[r - 14][c - 14]
                                         ELSE 0

\* C3 witness: the crop window starts inside the rescaled image and runs past
\* its bottom and right edges, padding is added on top and on the left, and
\* the intrinsic is given.
C3_Witness ==
    /\ Returned("scale_crop")
    /\ call.K # <<>> /\ call.K[3] = <<0, 0, 1>>
    /\ call.h_offset > 0 /\ call.h_offset < ret.locals.scaled.shape[1]
    /\ call.w_offset > call.h_offset /\ call.w_offset < ret.locals.scaled.shape[2]
    /\ call.h_offset + CropHeight(call.crop_size) > ret.locals.scaled.shape[1]
    /\ ret.locals.p_top > 0 /\ ret.locals.p_left > 0
    /\ ret.value[1].data[ret.locals.p_top + 1][ret.locals.p_left + 1]
         = ret.locals.scaled.data[call.h_offset + 1][call.w_offset + 1]

CropFits(crop_size, height, width) ==
    CropHeight(crop_size) <= height /\ CropWidth(crop_size) <= width

\* C4: for crop_size no larger than (height, width) the offsets returned by
\* get_random_crop_offsets are non-negative; the window stays inside the image
\* when height > crop_height + 1 and width > crop_width + 1; on an axis with
\* size - crop - 1 <= 0 the offset is 0.
C4_OffsetsInRange ==
    (Returned("get_random_crop_offsets") /\ CropFits(call.crop_size, call.height, call.width)) =>
        LET crop_height == CropHeight(call.crop_size)
            crop_width == CropWidth(call.crop_size)
            h_offset == ret.value[1]
            w_offset == ret.value[2]
        IN  /\ h_offset >= 0 /\ w_offset >= 0
            /\ (call.height > crop_height + 1 /\ call.width > crop_width + 1) =>
                  /\ h_offset + crop_height <= call.height
                  /\ w_offset + crop_width <= call.width
            /\ call.height - crop_height - 1 <= 0 => h_offset = 0
            /\ call.width - crop_width - 1 <= 0 => w_offset = 0

\* C4 witness: a strict height axis with a positive offset drawn, and a
\* degenerate width axis (width = crop_width + 1).
C4_Witness ==
    /\ Returned("get_random_crop_offsets")
    /\ CropFits(call.crop_size, call.height, call.width)
    /\ call.height > CropHeight(call.crop_size) + 1
    /\ call.width = CropWidth(call.crop_size) + 1
    /\ ret.value[1] > 0
    /\ ret.value[2] = 0

\* C5: for number_views > minimum_views, whatever the shuffle and the draw,
\* get_subset_views returns between minimum_views and number_views indices,
\* pairwise distinct and all in [0, number_views).
C5_SubsetViews ==
    (Returned("get_subset_views") /\ call.number_views > call.minimum_views) =>
        LET v == ret.value[1]
        IN  /\ Len(v) \in call.minimum_views..call.number_views
            /\ \A i \in 1..Len(v) : v[i] \in 0..(call.number_views - 1)
            /\ \A i, j \in 1..Len(v) : i # j => v[i] # v[j]

\* C5 witness: a proper subset larger than the minimum, in shuffled order.
C5_Witness ==
    /\ Returned("get_subset_views")
    /\ call.number_views > call.minimum_views
    /\ Len(ret.value[1]) > call.minimum_views
    /\ Len(ret.value[1]) < call.number_views
    /\ ret.value[1][1] > ret.value[1][2]

\* C6: pad_width_or_height returns a canvas of height max(height,
\* output_height) and width max(width, output_width); an axis at or above its
\* target gets no padding, a padded axis gets its deficit split with the
\* leading pad floor(deficit / 2) and the trailing pad the rest, so trailing
\* minus leading is 0 or 1.
C6_PadSplit ==
    Returned("pad_width_or_height") =>
        LET height == call.data.shape[1]
            width == call.data.shape[2]
            out == ret.value[1]
        IN  /\ HasSize(out, Max(height, call.output_height), Max(width, call.output_width))
            /\ call.return_offsets =>
                  LET p_top == ret.value[2]
                      p_bottom == ret.value[3]
                      p_left == ret.value[4]
                      p_right == ret.value[5]
                  IN  /\ p_top >= 0 /\ p_left >= 0
                      /\ p_top + p_bottom = Max(0, call.output_height - height)
                      /\ p_left + p_right = Max(0, call.output_width - width)
                      /\ p_bottom - p_top \in {0, 1}
                      /\ p_right - p_left \in {0, 1}

\* C6 witness: an odd deficit of 3 on the height (1 on top, 2 at the bottom)
\* and a width already above its target.
C6_Witness ==
    /\ Returned("pad_width_or_height")
    /\ call.return_offsets
    /\ call.output_height - call.data.shape[1] = 3
    /\ call.data.shape[2] > call.output_width
    /\ ret.value[2] = 1 /\ ret.value[3] = 2
    /\ ret.value[4] = 0 /\ ret.value[5] = 0

\* C7: padding an array image of size (h, w) with return_offsets=True and then
\* cropping the result with crop_size (h, w) at offsets (p_top, p_left) gives
\* back the original image cell for cell.
C7_PadCropRoundTrip ==
    (Returned("pad_width_or_height") /\ call.return_offsets /\ call.data.type = "ndarray") =>
        LET height == call.data.shape[1]
            width == call.data.shape[2]
            back == crop_img(ret.value[1], <<height, width>>, ret.value[2], ret.value[4])
        IN  /\ back.status = "return"
            /\ back.value = <<call.data>>

\* C7 witness: a 3-D array padded on top but not on the left (one cell on the
\* right), with a pad_value that is also the value of a cell of the image.
C7_Witness ==
    /\ Returned("pad_width_or_height")
    /\ call.return_offsets
    /\ call.data.type = "ndarray" /\ Len(call.data.shape) = 3
    /\ ret.value[2] > 0 /\ ret.value[4] = 0 /\ ret.value[5] = 1
    /\ \E r \in 1..call.data.shape[1], c \in 1..call.data.shape[2] :
          call.pad_value = call.data.data[r][c][1]
    /\ crop_img(ret.value[1], <<call.data.shape[1], call.data.shape[2]>>,
                ret.value[2], ret.value[4]).value = <<call.data>>

\* C8: crop_img on an image that is neither an array nor a tensor ends in its
\* own RuntimeError 'invalid image type'.
C8_UnsupportedTypeError ==
    (pc = "done" /\ call.fn = "crop_img" /\ call.img.type \notin {"ndarray", "tensor"}) =>
        /\ ret.status = "raise"
        /\ ret.error = "RuntimeError: invalid image type"

\* a fully-formed image: an array with rows and columns as its shape says
IsImage(x) ==
    /\ DOMAIN x = {"type", "shape", "data"}
    /\ Len(x.shape) \in {2, 3}
    /\ HasSize(x, x.shape[1], x.shape[2])

\* C9: a call of crop_img or scale_crop on an array of any rank either raises
\* or returns a fully-formed image (and the intrinsic when K was given); it
\* never returns normally without an image.
C9_ImageOrError ==
    (pc = "done" /\ call.fn \in {"crop_img", "scale_crop"} /\ call.img.type = "ndarray") =>
        \/ ret.status = "raise"
        \/ /\ ret.status = "return"
           /\ Len(ret.value) >= 1
           /\ IsImage(ret.value[1])
           /\ (call.fn = "scale_crop" /\ call.K # <<>>) => Len(ret.value) = 2

\* C10: every border cell pad_width_or_height adds holds pad_value, for an
\* array and for an image object alike: both get the same pad amounts and the
\* same border.
C10_BorderIsPadValue ==
    (Returned("pad_width_or_height") /\ call.return_offsets) =>
        LET out == ret.value[1]
            p_top == ret.value[2]
            p_left == ret.value[4]
            height == call.data.shape[1]
            width == call.data.shape[2]
            fill == FillCell(Len(out.shape), call.pad_value)
            asArray == pad_width_or_height(NdArray(call.data.shape), call.output_width,
                                           call.output_height, call.pad_value, TRUE)
        IN  /\ \A r \in 0..(out.shape[1] - 1), c \in 0..(out.shape[2] - 1) :
                  ~(p_top <= r /\ r < p_top + height /\ p_left <= c /\ c < p_left + width) =>
                      out.data[r + 1][c + 1] = fill
            /\ call.data.type = "Image" =>
                  /\ SubSeq(ret.value, 2, 5) = SubSeq(asArray.value, 2, 5)
                  /\ out.data = asArray.value[1].data

====
